---- MODULE Spec2Model ----
(***************************************************************************)
(* Organizational hierarchy, membership and invitation lifecycle of the    *)
(* Lumen+ application: the REST operations the mobile client issues        *)
(* (invite, accept, reject, setRole, removeMember), the transactions the   *)
(* backend runs for them against the shared relational store, and the      *)
(* permission / visibility resolver.                                       *)
(***************************************************************************)
EXTENDS Integers, Sequences, FiniteSets, Bags, TLC

\* ---------------------------------------------------------------- bounds
MaxInvitations == 2
MaxInflight == 2
MaxTime == 1

\* ------------------------------------------------------------- universes
Users == {"c", "u"}
Roles == {"MEMBER", "COORDINATOR"}
Visibilities == {"PUBLIC", "RESTRICTED"}
NoExpiry == 0 - 1
NoUnit == "null"
NoTree == <<>>
NoToken == "null"
NoUser == "null"
NoError == "null"
NoId == "null"
InviteIds == {"i1", "i2", "i3"}
NoNode == [id |-> NoUnit, type |-> "-"]
EmptyForm == [name |-> "", visibility |-> "PUBLIC", selectedType |-> ""]
NoTimer == "null"
\* The user of the device.
CurrentUser == "u"
NoCount == 0 - 1
NoPost == [parent |-> NoUnit, name |-> "", visibility |-> "PUBLIC", group_type |-> ""]

VARIABLES
    units,          \* OrgUnit store: id -> unit
    memberships,    \* Membership store: a bag of rows
    invitations,    \* Invitation store: id -> row, ids 1, 2, ...
    now,            \* the server clock
    reqs,           \* open transactions: a bag of validated requests
    response,       \* the outcome of the call that has just completed
    permissions,    \* Members screen: the permissions last loaded
    visible,        \* whether the unit's content is served to that user
    tree,           \* Community screen: the tree last loaded
    token,          \* ApiClient.token, the token the client keeps in memory
    auth_token,     \* SecureStore item 'auth_token'
    headers,        \* the Authorization header of the last request sent
    router,         \* the screen the app shows
    auth_user,      \* useAuthStore.user: the user loaded
    isLoading,      \* useAuthStore: an action is running
    isAuthenticated,\* useAuthStore
    auth_error,     \* useAuthStore.error: the message of the last failed login
    invites,        \* Invites screen: the invitations listed
    processingId,   \* Invites screen: the invitation being processed
    posts,          \* Invites screen: its accept / reject requests in flight
    my_invites,     \* what GET /org/my/invites answers: the user's open invitations
    alert,          \* the title of the last Alert shown
    loads,          \* the screens whose load request is in flight
    myMemberships,  \* Community screen: the user's memberships last loaded
    expandedIds,    \* Community screen: the units shown expanded
    selectedUnit,   \* Community screen: the unit of the details modal
    showDetails,    \* Community screen: the details modal is open
    parentUnit,     \* Community screen: the parent of the create form
    createForm,     \* Community screen: the fields of the create form
    showCreate,     \* Community screen: the create form is open
    isCreating,     \* Community screen: a create request is in flight
    posted,         \* Community screen: the create request last sent
    members,        \* Members screen: the list the server returned
    data,           \* Members screen: the rows of the member list
    searchQuery,    \* Members screen: the text of the user search
    searchResults,  \* Members screen: the users found
    timer,          \* Members screen: the pending debounce timer
    searches,       \* Members screen: the search requests in flight
    isSearching,    \* Members screen: a search is running
    isSendingInvite,\* Members screen: an invite is being sent
    sent,           \* Members screen: the mutating requests in flight
    countdown,      \* Verify-phone screen: seconds until a code can be sent again
    isSending,      \* Verify-phone screen: a send is running
    verificationId, \* Verify-phone screen: the verification the last send started
    send_error,     \* Verify-phone screen: the error shown
    starts,         \* Verify-phone screen: the /verify/phone/start requests in flight
    sendToAll,      \* Create-notice screen: the notice goes to every member
    selected,       \* Create-notice screen: the filter codes selected
    previews,       \* Create-notice screen: the preview requests in flight
    previewCount    \* Create-notice screen: the recipient count shown

\* The state of useAuthStore.
authStore == <<auth_user, isLoading, isAuthenticated, auth_error>>

\* The state of the other screens.
invitesScreen == <<invites, processingId, posts, my_invites>>

communityScreen == <<myMemberships, expandedIds, selectedUnit, showDetails, parentUnit,
                     createForm, showCreate, isCreating, posted>>

membersScreen == <<members, data, searchQuery, searchResults, timer, searches, isSearching,
                   isSendingInvite, sent>>

verifyScreen == <<countdown, isSending, verificationId, send_error, starts>>

avisoScreen == <<sendToAll, selected, previews, previewCount>>

screens == <<invitesScreen, alert, loads, communityScreen, membersScreen, verifyScreen,
             avisoScreen>>

\* The client state that the organization's operations leave alone.
app == <<tree, token, auth_token, headers, router, authStore, screens>>

vars == <<units, memberships, invitations, now, reqs, response, permissions, visible, app>>

\* ------------------------------------------------------------ data model
OrgUnit(type, parent_id, visibility) ==
    [type |-> type, parent_id |-> parent_id, visibility |-> visibility, is_active |-> TRUE]

Membership(user_id, org_unit_id, role) ==
    [user_id |-> user_id, org_unit_id |-> org_unit_id, role |-> role, status |-> "ACTIVE"]

Invitation(org_unit_id, invited_user_id, invited_by_user_id, role, expires_at) ==
    [org_unit_id |-> org_unit_id, invited_user_id |-> invited_user_id,
     invited_by_user_id |-> invited_by_user_id, role |-> role,
     status |-> "PENDING", expires_at |-> expires_at]

\* Number of Membership rows stored for a (user, unit) pair.
member_rows(ms, user_id, org_unit_id) ==
    CopiesIn(Membership(user_id, org_unit_id, "MEMBER"), ms)
      + CopiesIn(Membership(user_id, org_unit_id, "COORDINATOR"), ms)

is_active_member(ms, user_id, org_unit_id) == member_rows(ms, user_id, org_unit_id) > 0

\* ------------------------------------------- permission resolver (4.4)
is_coordinator(ms, user_id, org_unit_id) ==
    BagIn(Membership(user_id, org_unit_id, "COORDINATOR"), ms)

can_invite(ms, user_id, org_unit_id) == is_coordinator(ms, user_id, org_unit_id)

\* can_manage_members granted to every member of the unit.
can_manage_members_any_member(ms, user_id, org_unit_id) ==
    is_active_member(ms, user_id, org_unit_id)

can_manage_members(ms, user_id, org_unit_id) == is_coordinator(ms, user_id, org_unit_id)

\* GET /org/my/memberships: the caller's memberships as the client holds them.
my_memberships(ms, user_id) ==
    {[org_unit_id |-> r.org_unit_id, role |-> r.role] :
        r \in {x \in BagToSet(ms) : x.user_id = user_id /\ x.status = "ACTIVE"}}

\* isCoordinator without the comparison of the unit.
isCoordinator_any_unit(mine, unitId) ==
    \E m \in mine : m.role = "COORDINATOR"

isCoordinator(mine, unitId) ==
    \E m \in mine : m.org_unit_id = unitId /\ m.role = "COORDINATOR"

isMember(mine, unitId) ==
    \E m \in mine : m.org_unit_id = unitId

\* The units a user counts as a member of for visibility, inheriting from
\* every unit to its parent.
visibility_units_any_parent(us, ms, user_id) ==
    LET own == {id \in DOMAIN us : is_active_member(ms, user_id, id)} IN
    own \cup {us[id].parent_id : id \in own}

\* The units a user counts as a member of for visibility: those of the user's
\* own memberships, and the parent SECTOR of each MINISTRY among them.
visibility_units(us, ms, user_id) ==
    LET own == {id \in DOMAIN us : is_active_member(ms, user_id, id)} IN
    own \cup {us[id].parent_id : id \in {x \in own : us[x].type = "MINISTERIO"}}

\* PUBLIC: visible to everybody.  RESTRICTED: to members only.
content_visible(us, ms, user_id, org_unit_id) ==
    \/ us[org_unit_id].visibility = "PUBLIC"
    \/ org_unit_id \in visibility_units(us, ms, user_id)

\* ----------------------------------------------------- invitation state
is_expired(inv, t) == inv.expires_at # NoExpiry /\ t > inv.expires_at

has_pending(invs, org_unit_id, invited_user_id) ==
    \E i \in DOMAIN invs :
        /\ invs[i].org_unit_id = org_unit_id
        /\ invs[i].invited_user_id = invited_user_id
        /\ invs[i].status = "PENDING"

\* ---------------------------------------------- requests and responses
Request(op, caller, inv, unit, user, role) ==
    [op |-> op, caller |-> caller, inv |-> inv, unit |-> unit, user |-> user,
     role |-> role, type |-> "-"]

\* What the caller observes of a completed call: which call, and how it ended.
Response(req, result) ==
    [op |-> req.op, caller |-> req.caller, inv |-> req.inv, result |-> result]

NoResponse == Response(Request("none", "-", 0, NoUnit, "-", "-"), "none")

\* No completed call is waiting for its caller's continuation.
idle == response = NoResponse

inflight == BagCardinality(reqs)

\* The request is answered with an error before any write.
Fail(req, error) ==
    /\ response' = Response(req, error)
    /\ UNCHANGED <<units, memberships, invitations, now, reqs, permissions, visible, app>>

\* The request passed validation and its transaction is open.
Admit(req) ==
    /\ reqs' = reqs (+) SetToBag({req})
    /\ UNCHANGED <<units, memberships, invitations, now, response, permissions, visible, app>>

\* The open transaction rolls back: nothing it wrote becomes visible.
Rollback(req, error) ==
    /\ response' = Response(req, error)
    /\ UNCHANGED <<units, memberships, invitations, now, permissions, visible, app>>

\* Validation: every failure condition of the contract that applies.  The
\* contract names the error of each condition and fixes no precedence among
\* them, so a call that fails is answered with any one of those that apply.
Validate(req, errors) ==
    IF errors = {} THEN Admit(req) ELSE \E error \in errors : Fail(req, error)

\* ------------------------------------------------------------- invite
invite_errors(ms, invs, caller, org_unit_id, invited_user_id) ==
    {e \in {"DuplicatePending"} : has_pending(invs, org_unit_id, invited_user_id)}
      \cup {e \in {"Unauthorized"} : ~can_invite(ms, caller, org_unit_id)}
      \cup {e \in {"AlreadyMember"} : is_active_member(ms, invited_user_id, org_unit_id)}

handleSendInvite(caller, org_unit_id, userId, inviteRole) ==
    LET req == Request("invite", caller, 0, org_unit_id, userId, inviteRole)
        errors == invite_errors(memberships, invitations, caller, org_unit_id, userId)
    IN  /\ idle
        /\ inflight < MaxInflight
        /\ errors = {} => Len(invitations) < MaxInvitations
        /\ Validate(req, errors)

\* The row's expires_at is set by the server: none, or a time from now on.
invite_commit(req) ==
    /\ Len(invitations) < MaxInvitations
    /\ \E expires_at \in {NoExpiry} \cup (now .. (MaxTime - 1)) :
          invitations' = Append(invitations,
              Invitation(req.unit, req.user, req.caller, req.role, expires_at))
    /\ response' = Response(req, "OK")
    /\ UNCHANGED <<units, memberships, now, permissions, visible, app>>

\* ------------------------------------------------------ accept / reject
\* accept_errors without the comparison of the caller with the invited user.
accept_errors_any_caller(invs, caller, id, t) ==
    {e \in {"Expired"} : is_expired(invs[id], t)}
      \cup {e \in {"InvalidState"} : invs[id].status # "PENDING"}

\* accept_errors without the comparison of the clock with expires_at.
accept_errors_no_expiry(invs, caller, id, t) ==
    {e \in {"Forbidden"} : caller # invs[id].invited_user_id}
      \cup {e \in {"InvalidState"} : invs[id].status # "PENDING"}

accept_errors(invs, caller, id, t) ==
    {e \in {"Forbidden"} : caller # invs[id].invited_user_id}
      \cup {e \in {"Expired"} : is_expired(invs[id], t)}
      \cup {e \in {"InvalidState"} : invs[id].status # "PENDING"}

handleAccept(caller, id) ==
    LET req == Request("accept", caller, id, NoUnit, "-", "-") IN
    /\ idle
    /\ inflight < MaxInflight
    /\ Validate(req, accept_errors(invitations, caller, id, now))

handleReject(caller, id) ==
    LET req == Request("reject", caller, id, NoUnit, "-", "-") IN
    /\ idle
    /\ inflight < MaxInflight
    /\ Validate(req, accept_errors(invitations, caller, id, now))

\* accept_conflicts without the unique constraint on Membership.
accept_conflicts_no_unique(ms, inv) ==
    {e \in {"InvalidState"} : inv.status # "PENDING"}

\* What stops the accept transaction at its writes: the compare-and-set on
\* Invitation.status finds it no longer PENDING, or the Membership insert hits
\* the unique (user_id, org_unit_id) constraint.
accept_conflicts(ms, inv) ==
    {e \in {"InvalidState"} : inv.status # "PENDING"}
      \cup {e \in {"AlreadyMember"} :
              is_active_member(ms, inv.invited_user_id, inv.org_unit_id)}

\* accept_commit that leaves the status update in place when the insert fails.
accept_commit_partial(req) ==
    LET inv == invitations[req.inv]
        conflicts == accept_conflicts(memberships, inv)
    IN  /\ invitations' = [invitations EXCEPT ![req.inv].status = "ACCEPTED"]
        /\ IF conflicts # {}
           THEN /\ response' = Response(req, "AlreadyMember")
                /\ UNCHANGED memberships
           ELSE /\ memberships' = memberships (+)
                      SetToBag({Membership(inv.invited_user_id, inv.org_unit_id, inv.role)})
                /\ response' = Response(req, "OK")
        /\ UNCHANGED <<units, now, permissions, visible, app>>

\* Status update and Membership insert commit together or not at all.
accept_commit(req) ==
    LET inv == invitations[req.inv]
        conflicts == accept_conflicts(memberships, inv)
    IN  IF conflicts # {} THEN \E error \in conflicts : Rollback(req, error)
        ELSE /\ invitations' = [invitations EXCEPT ![req.inv].status = "ACCEPTED"]
             /\ memberships' = memberships (+)
                   SetToBag({Membership(inv.invited_user_id, inv.org_unit_id, inv.role)})
             /\ response' = Response(req, "OK")
             /\ UNCHANGED <<units, now, permissions, visible, app>>

\* reject_commit without the compare-and-set on the status.
reject_commit_blind(req) ==
    /\ invitations' = [invitations EXCEPT ![req.inv].status = "REJECTED"]
    /\ response' = Response(req, "OK")
    /\ UNCHANGED <<units, memberships, now, permissions, visible, app>>

reject_commit(req) ==
    IF invitations[req.inv].status # "PENDING" THEN Rollback(req, "InvalidState")
    ELSE /\ invitations' = [invitations EXCEPT ![req.inv].status = "REJECTED"]
         /\ response' = Response(req, "OK")
         /\ UNCHANGED <<units, memberships, now, permissions, visible, app>>

\* -------------------------------------------------- setRole / removeMember
\* manage_errors that lets a member act on their own membership.
manage_errors_or_self(ms, caller, org_unit_id, user_id) ==
    {e \in {"Unauthorized"} :
        ~can_manage_members(ms, caller, org_unit_id) /\ caller # user_id}
      \cup {e \in {"MemberNotFound"} : ~is_active_member(ms, user_id, org_unit_id)}

manage_errors(ms, caller, org_unit_id, user_id) ==
    {e \in {"Unauthorized"} : ~can_manage_members(ms, caller, org_unit_id)}
      \cup {e \in {"MemberNotFound"} : ~is_active_member(ms, user_id, org_unit_id)}

\* The rows of ms that are not for the (user, unit) pair.
other_rows(ms, user_id, org_unit_id) ==
    [r \in {x \in DOMAIN ms : ~(x.user_id = user_id /\ x.org_unit_id = org_unit_id)}
        |-> ms[r]]

\* The members list as the screen holds it: a user and the role shown.
Member(user_id, role) == [user_id |-> user_id, role |-> role]

\* newRole that promotes whatever the member's role is.
newRole_promote_only(role) == "COORDINATOR"

\* The role the promote / demote action asks for: the opposite of the one shown.
newRole(role) == IF role = "COORDINATOR" THEN "MEMBER" ELSE "COORDINATOR"

handlePromote(caller, org_unit_id, member) ==
    LET req == Request("setRole", caller, 0, org_unit_id, member.user_id,
                       newRole(member.role))
    IN  /\ idle
        /\ inflight < MaxInflight
        /\ Validate(req, manage_errors(memberships, caller, org_unit_id, member.user_id))

handleRemove(caller, org_unit_id, user_id) ==
    LET req == Request("removeMember", caller, 0, org_unit_id, user_id, "-") IN
    /\ idle
    /\ inflight < MaxInflight
    /\ Validate(req, manage_errors(memberships, caller, org_unit_id, user_id))

setRole_commit(req) ==
    LET n == member_rows(memberships, req.user, req.unit) IN
    IF n = 0 THEN Rollback(req, "MemberNotFound")
    ELSE /\ memberships' = other_rows(memberships, req.user, req.unit) (+)
               [r \in {Membership(req.user, req.unit, req.role)} |-> n]
         /\ response' = Response(req, "OK")
         /\ UNCHANGED <<units, invitations, now, permissions, visible, app>>

\* removeMember_commit that deletes the user's rows in every unit.
removeMember_commit_every_unit(req) ==
    IF member_rows(memberships, req.user, req.unit) = 0
    THEN Rollback(req, "MemberNotFound")
    ELSE /\ memberships' = [r \in {x \in DOMAIN memberships : x.user_id # req.user}
                               |-> memberships[r]]
         /\ response' = Response(req, "OK")
         /\ UNCHANGED <<units, invitations, now, permissions, visible, app>>

removeMember_commit(req) ==
    IF member_rows(memberships, req.user, req.unit) = 0
    THEN Rollback(req, "MemberNotFound")
    ELSE /\ memberships' = other_rows(memberships, req.user, req.unit)
         /\ response' = Response(req, "OK")
         /\ UNCHANGED <<units, invitations, now, permissions, visible, app>>

\* ------------------------------------------------- membership request
\* request that still creates the Membership asked for.
membershipService_request_inserts(caller, org_unit_id) ==
    LET req == Request("request", caller, 0, org_unit_id, caller, "MEMBER") IN
    /\ idle
    /\ memberships' = memberships (+) SetToBag({Membership(caller, org_unit_id, "MEMBER")})
    /\ response' = Response(req, "OK")
    /\ UNCHANGED <<units, invitations, now, reqs, permissions, visible, app>>

\* The client's service still posts a participation request; the backend has
\* invitations only and no such operation, so the call is answered NotFound.
membershipService_request(caller, org_unit_id) ==
    LET req == Request("request", caller, 0, org_unit_id, caller, "MEMBER") IN
    /\ idle
    /\ Fail(req, "NotFound")

\* ------------------------------------------------------------- unit tree
\* The most units the tree grows to.
MaxUnits == 5

\* Unit ids in creation order.
UnitIds == [n \in 1..MaxUnits |-> ToString(n)]

UnitTypes == {"CONSELHO_GERAL", "CONSELHO_EXECUTIVO", "SETOR", "MINISTERIO", "GRUPO"}

GroupTypes == {"ACOLHIDA", "APROFUNDAMENTO", "VOCACIONAL", "CASAIS", "CURSO", "PROJETO"}

\* The users holding the DEV role.
Devs == {"c"}

\* The fixed hierarchy table: the child types a parent type permits.
HierarchyTable(type) ==
    CASE type = "CONSELHO_GERAL" -> {"CONSELHO_EXECUTIVO"}
      [] type = "CONSELHO_EXECUTIVO" -> {"SETOR"}
      [] type = "SETOR" -> {"MINISTERIO", "GRUPO"}
      [] type = "MINISTERIO" -> {"GRUPO"}
      [] OTHER -> {}

Option(value, groupType) == [value |-> value, groupType |-> groupType]

GroupOptions == {Option("GRUPO", groupType) : groupType \in GroupTypes}

\* community.tsx CHILD_TYPE_OPTIONS; CHILD_TYPE_OPTIONS[type] is undefined
\* for a type without an entry, which the callers read as no option.
CHILD_TYPE_OPTIONS(type) ==
    CASE type = "CONSELHO_GERAL" -> {Option("CONSELHO_EXECUTIVO", "")}
      [] type = "CONSELHO_EXECUTIVO" -> {Option("SETOR", "")}
      [] type = "SETOR" -> {Option("MINISTERIO", "")} \cup GroupOptions
      [] type = "MINISTERIO" -> GroupOptions
      [] OTHER -> {}

\* Every value the type selector of the create form can hold.
SelectedTypes == UNION {CHILD_TYPE_OPTIONS(type) : type \in UnitTypes}

roots(us) == {id \in DOMAIN us : us[id].parent_id = NoUnit}

\* The id the store gives the next unit.
next_id(us) == UnitIds[Cardinality(DOMAIN us) + 1]

\* The children of a unit, in creation order.
children(us, parent_id) ==
    SelectSeq(UnitIds, LAMBDA id : id \in DOMAIN us /\ us[id].parent_id = parent_id)

\* getTree(rootId): the subtree below rootId as a nested structure.
RECURSIVE getTree(_, _)
getTree(us, rootId) ==
    LET kids == children(us, rootId) IN
    [id |-> rootId, type |-> us[rootId].type, parent_id |-> us[rootId].parent_id,
     children |-> [i \in 1..Len(kids) |-> getTree(us, kids[i])]]

CreateRequest(op, caller, parentId, type) ==
    [Request(op, caller, 0, parentId, caller, "-") EXCEPT !.type = type]

\* The store has room for the units of the open transactions and one more.
has_room == Cardinality(DOMAIN units) + inflight < MaxUnits

\* Root creation (POST /dev/create-conselho-geral): for DEV only, and only
\* while no root exists.
createRoot_errors(us, caller) ==
    {e \in {"Unauthorized"} : caller \notin Devs}
      \cup {e \in {"RootAlreadyExists"} : roots(us) # {}}

createRoot(caller) ==
    LET req == CreateRequest("createRoot", caller, NoUnit, "CONSELHO_GERAL") IN
    /\ idle
    /\ inflight < MaxInflight
    /\ createRoot_errors(units, caller) = {} => has_room
    /\ Validate(req, createRoot_errors(units, caller))

insert_unit(req) ==
    /\ units' = units @@ (next_id(units) :> OrgUnit(req.type, req.unit, "PUBLIC"))
    /\ response' = Response(req, "OK")
    /\ UNCHANGED <<memberships, invitations, now, permissions, visible, app>>

createRoot_commit(req) == insert_unit(req)

\* createChild that does not consult the hierarchy table.
createChild_errors_no_table(us, ms, caller, parentId, type) ==
    {e \in {"NotFound"} : parentId \notin DOMAIN us \/ ~us[parentId].is_active}
      \cup {e \in {"Unauthorized"} : ~is_coordinator(ms, caller, parentId)}

\* createChild(parentId, ...): the parent exists and is active, the caller
\* coordinates it, and its type permits the requested child type.
createChild_errors(us, ms, caller, parentId, type) ==
    {e \in {"NotFound"} : parentId \notin DOMAIN us \/ ~us[parentId].is_active}
      \cup {e \in {"Unauthorized"} : ~is_coordinator(ms, caller, parentId)}
      \cup {e \in {"InvalidHierarchy"} :
                parentId \in DOMAIN us /\ type \notin HierarchyTable(us[parentId].type)}

createChild(caller, parentId, type) ==
    LET req == CreateRequest("createChild", caller, parentId, type) IN
    /\ idle
    /\ inflight < MaxInflight
    /\ createChild_errors(units, memberships, caller, parentId, type) = {} => has_room
    /\ Validate(req, createChild_errors(units, memberships, caller, parentId, type))

createChild_commit(req) == insert_unit(req)

\* A unit's first coordinator is appointed at setup: invite needs a
\* coordinator of the unit, so no operation of the workflow creates the first.
provision(user_id, org_unit_id) ==
    /\ idle
    /\ org_unit_id \in DOMAIN units
    /\ ~is_active_member(memberships, user_id, org_unit_id)
    /\ memberships' = memberships (+) SetToBag({Membership(user_id, org_unit_id, "COORDINATOR")})
    /\ UNCHANGED <<units, invitations, now, reqs, response, permissions, visible, app>>

\* Community screen loadData: GET /org/tree answers with the tree below the
\* root, or with root: null while there is none, and GET /org/my/memberships
\* with the user's memberships; the root and its children are shown expanded.
CommunityScreen_loadData(user_id) ==
    /\ idle
    /\ \/ /\ roots(units) = {}
          /\ tree' = NoTree
          /\ UNCHANGED expandedIds
       \/ \E rootId \in roots(units) :
             /\ tree' = getTree(units, rootId)
             /\ expandedIds' = {rootId} \cup {id \in DOMAIN units : units[id].parent_id = rootId}
    /\ myMemberships' = my_memberships(memberships, user_id)
    /\ loads' = loads \ {"community"}
    /\ UNCHANGED <<units, memberships, invitations, now, reqs, response, permissions,
                   visible, token, auth_token, headers, router, authStore, invitesScreen,
                   membersScreen, verifyScreen, avisoScreen, alert, selectedUnit, showDetails, parentUnit, createForm, showCreate,
                   isCreating, posted>>

\* The units of a loaded tree.
RECURSIVE tree_units(_)
tree_units(unit) ==
    {unit} \cup UNION {tree_units(unit.children[i]) : i \in DOMAIN unit.children}

\* renderUnit: the unit's row, then the rows of its children when the unit is
\* expanded, each rendered the same way.
RECURSIVE renderUnit(_, _)
renderUnit(unit, expanded) ==
    LET RECURSIVE rows(_)
        rows(i) ==
            IF i > Len(unit.children) THEN <<>>
            ELSE renderUnit(unit.children[i], expanded) \o rows(i + 1)
    IN <<unit.id>> \o (IF unit.id \in expanded THEN rows(1) ELSE <<>>)

\* handleCreate: the selected type must be an option of the parent's type,
\* else the screen alerts 'Tipo inválido' and sends nothing; the request names
\* the parent and the option's group type.
handleCreate(caller, parent, selectedType) ==
    IF selectedType \in CHILD_TYPE_OPTIONS(parent.type)
    THEN createChild(caller, parent.id, selectedType.value)
    ELSE /\ idle
         /\ Fail(CreateRequest("createChild", caller, parent.id, selectedType.value),
                 "Tipo invalido")

\* ------------------------------------------------------------- commit
\* An open transaction reaches its writes and ends.
Commit(req) ==
    /\ idle
    /\ BagIn(req, reqs)
    /\ reqs' = reqs (-) SetToBag({req})
    /\ CASE req.op = "invite" -> invite_commit(req)
         [] req.op = "accept" -> accept_commit(req)
         [] req.op = "reject" -> reject_commit(req)
         [] req.op = "setRole" -> setRole_commit(req)
         [] req.op = "removeMember" -> removeMember_commit(req)
         [] req.op = "createRoot" -> createRoot_commit(req)
         [] req.op = "createChild" -> createChild_commit(req)

\* The caller's continuation (then / catch / finally) consumes the outcome.
Deliver ==
    /\ ~idle
    /\ response' = NoResponse
    /\ UNCHANGED <<units, memberships, invitations, now, reqs, permissions, visible, app>>

\* Time passes.  A transaction reads the clock once, so the clock advances
\* between transactions.
Tick ==
    /\ idle
    /\ now < MaxTime
    /\ reqs = EmptyBag
    /\ now' = now + 1
    /\ UNCHANGED <<units, memberships, invitations, reqs, response, permissions, visible, app>>

\* The Members screen of a user loads the permissions on a unit, and the
\* resolver decides whether the unit's content is served to the user.
loadData(user_id, org_unit_id) ==
    /\ permissions' =
          [user_id |-> user_id, org_unit_id |-> org_unit_id,
           can_invite |-> can_invite(memberships, user_id, org_unit_id),
           can_manage_members |-> can_manage_members(memberships, user_id, org_unit_id),
           is_coordinator |-> is_coordinator(memberships, user_id, org_unit_id)]
    /\ visible' = content_visible(units, memberships, user_id, org_unit_id)
    /\ UNCHANGED <<units, memberships, invitations, now, reqs, response, app>>

\* ---------------------------------------------------------------- Init
\* The organization after setup: a sector with its coordinator, who is also
\* a plain member of the ministry below it; user "u" belongs to nothing yet.
SeedUnits ==
    [id \in {"s", "m"} |->
        IF id = "s" THEN OrgUnit("SETOR", NoUnit, "RESTRICTED")
        ELSE OrgUnit("MINISTERIO", "s", "RESTRICTED")]

SeedMemberships ==
    SetToBag({Membership("c", "s", "COORDINATOR"), Membership("c", "m", "MEMBER")})

\* No tree loaded, nobody logged in, nothing sent.
InitApp ==
    /\ tree = NoTree
    /\ token = NoToken
    /\ auth_token = NoToken
    /\ headers = NoToken
    /\ router = "/(auth)/login"
    /\ auth_user = NoUser
    /\ isLoading = TRUE
    /\ isAuthenticated = FALSE
    /\ auth_error = NoError
    /\ invites = {}
    /\ processingId = NoId
    /\ posts = EmptyBag
    /\ my_invites = InviteIds
    /\ alert = "none"
    /\ loads = {}
    /\ myMemberships = {}
    /\ expandedIds = {}
    /\ selectedUnit = NoNode
    /\ showDetails = FALSE
    /\ parentUnit = NoNode
    /\ createForm = EmptyForm
    /\ showCreate = FALSE
    /\ isCreating = FALSE
    /\ posted = NoPost
    /\ members = <<>>
    /\ data = <<>>
    /\ searchQuery = ""
    /\ searchResults = {}
    /\ timer = NoTimer
    /\ searches = {}
    /\ isSearching = FALSE
    /\ isSendingInvite = FALSE
    /\ sent = EmptyBag
    /\ countdown = 0
    /\ isSending = FALSE
    /\ verificationId = NoId
    /\ send_error = ""
    /\ starts = 0
    /\ sendToAll = TRUE
    /\ selected = {}
    /\ previews = {}
    /\ previewCount = NoCount

NoPermissions ==
    [user_id |-> "-", org_unit_id |-> NoUnit, can_invite |-> FALSE,
     can_manage_members |-> FALSE, is_coordinator |-> FALSE]

Init ==
    /\ units = SeedUnits
    /\ memberships = SeedMemberships
    /\ invitations = <<>>
    /\ now = 0
    /\ reqs = EmptyBag
    /\ response = NoResponse
    /\ permissions = NoPermissions
    /\ visible = FALSE
    /\ InitApp

Next ==
    \/ \E caller \in Users, unit \in DOMAIN units, user \in Users, role \in Roles :
            handleSendInvite(caller, unit, user, role)
    \/ \E caller \in Users, id \in DOMAIN invitations : handleAccept(caller, id)
    \/ \E caller \in Users, id \in DOMAIN invitations : handleReject(caller, id)
    \/ \E caller \in Users, unit \in DOMAIN units, user \in Users, role \in Roles :
            handlePromote(caller, unit, Member(user, role))
    \/ \E caller \in Users, unit \in DOMAIN units, user \in Users :
            handleRemove(caller, unit, user)
    \/ \E caller \in Users, unit \in DOMAIN units : membershipService_request(caller, unit)
    \/ \E req \in BagToSet(reqs) : Commit(req)
    \/ Deliver
    \/ Tick

Spec == Init /\ [][Next]_vars

\* ------------------------------------------------- the resolver on its own
\* An executive council, a sector below it, a ministry and a group below the
\* sector, and a group below the ministry.
ResolverUnits(sector_visibility) ==
    [id \in {"e", "s", "m", "g1", "g2"} |->
        CASE id = "e" -> OrgUnit("CONSELHO_EXECUTIVO", NoUnit, "RESTRICTED")
          [] id = "s" -> OrgUnit("SETOR", "e", sector_visibility)
          [] id = "m" -> OrgUnit("MINISTERIO", "s", "RESTRICTED")
          [] id = "g1" -> OrgUnit("GRUPO", "s", "RESTRICTED")
          [] id = "g2" -> OrgUnit("GRUPO", "m", "RESTRICTED")]

\* Any memberships of user "u" in that tree; user "c" belongs to nothing.
InitResolver ==
    /\ \E vs \in Visibilities : units = ResolverUnits(vs)
    /\ \E f \in [{"e", "s", "m", "g1", "g2"} -> {"none"} \cup Roles] :
          memberships = SetToBag({Membership("u", id, f[id]) :
                                     id \in {x \in DOMAIN f : f[x] # "none"}})
    /\ invitations = <<>>
    /\ now = 0
    /\ reqs = EmptyBag
    /\ response = NoResponse
    /\ permissions = NoPermissions
    /\ visible = FALSE
    /\ InitApp

NextResolver ==
    \/ \E user \in Users, unit \in DOMAIN units : loadData(user, unit)
    \/ \E caller \in Users, unit \in DOMAIN units, user \in Users :
            handleSendInvite(caller, unit, user, "MEMBER")
    \/ Deliver

SpecResolver == InitResolver /\ [][NextResolver]_vars

\* The tree grown from an empty store.
InitTree ==
    /\ units = <<>>
    /\ memberships = EmptyBag
    /\ invitations = <<>>
    /\ now = 0
    /\ reqs = EmptyBag
    /\ response = NoResponse
    /\ permissions = NoPermissions
    /\ visible = FALSE
    /\ InitApp

NextTree ==
    \/ \E caller \in Users : createRoot(caller)
    \/ \E caller \in Users, parentId \in DOMAIN units \cup {UnitIds[MaxUnits]},
          type \in UnitTypes : createChild(caller, parentId, type)
    \/ \E caller \in Users, selectedType \in SelectedTypes :
          /\ tree # NoTree
          /\ \E parent \in tree_units(tree) : handleCreate(caller, parent, selectedType)
    \/ \E org_unit_id \in DOMAIN units : provision("c", org_unit_id)
    \/ \E req \in BagToSet(reqs) : Commit(req)
    \/ Deliver
    \/ CommunityScreen_loadData(CurrentUser)

SpecTree == InitTree /\ [][NextTree]_vars

\* ------------------------------------------------------------ session token
\* The accounts that log in on one device.
Emails == {"a", "b", "d", "e"}

\* login.tsx builds the developer token from the e-mail; /auth/login answers
\* with an access token of the account that logged in.
devToken(email) == "dev:" \o email

access_token(email) == "jwt:" \o email

\* The HTTP statuses of section 6: success, and the failures 401/403/404/409.
StatusCodes == {200, 401, 403, 404, 409}

\* The organization's state, which the session's handlers leave alone.
org == <<units, memberships, invitations, now, reqs, permissions, visible, tree,
         authStore, screens>>

\* What a call to ApiClient.request ends with: the parsed body, or the thrown
\* { response: { status, data } }.
returns == [op |-> "return", caller |-> "-", inv |-> 0, result |-> 200]

throws(status) == [op |-> "throw", caller |-> "-", inv |-> 0, result |-> status]

\* ApiClient.getToken: the cached token when there is one, else the stored
\* one, which it then caches.
getToken == IF token # NoToken THEN token ELSE auth_token

\* clearToken that forgets the cached token and keeps the stored item.
clearToken_memory_only ==
    /\ token' = NoToken
    /\ UNCHANGED auth_token

\* ApiClient.clearToken: drops the cache and the stored item.
clearToken ==
    /\ token' = NoToken
    /\ auth_token' = NoToken

\* ApiClient.request: the Authorization header is built from getToken(); a
\* response that is not ok is thrown, a 401 after clearing the token; any other
\* outcome leaves the cache as getToken() left it.
request(status) ==
    /\ headers' = getToken
    /\ IF status = 401 THEN clearToken ELSE token' = getToken
    /\ response' = IF status = 200 THEN returns ELSE throws(status)

\* ApiClient.get, as the screens behind the login call it (home.tsx loadData).
api_get(status) ==
    /\ router = "/(tabs)/home"
    /\ request(status)
    /\ IF status = 401 THEN TRUE ELSE UNCHANGED auth_token
    /\ UNCHANGED <<org, router>>

\* login.tsx handleLogin: posts the credentials through the ApiClient, then
\* writes the access token to SecureStore itself and opens the home screen; a
\* refused login stays on the login screen.
handleLogin(email, status) ==
    /\ router = "/(auth)/login"
    /\ request(status)
    /\ IF status = 200
       THEN /\ auth_token' = access_token(email)
            /\ router' = "/(tabs)/home"
       ELSE /\ UNCHANGED router
            /\ IF status = 401 THEN TRUE ELSE UNCHANGED auth_token
    /\ UNCHANGED org

\* login.tsx handleDevLogin: writes the developer token to SecureStore itself.
handleDevLogin(email) ==
    /\ router = "/(auth)/login"
    /\ auth_token' = devToken(email)
    /\ router' = "/(tabs)/home"
    /\ UNCHANGED <<org, response, token, headers>>

\* home.tsx handleLogout: deletes the stored item itself and opens the login screen.
handleLogout ==
    /\ router = "/(tabs)/home"
    /\ auth_token' = NoToken
    /\ router' = "/(auth)/login"
    /\ UNCHANGED <<org, response, token, headers>>

NextAuth ==
    \/ \E email \in Emails, status \in StatusCodes : handleLogin(email, status)
    \/ \E email \in Emails : handleDevLogin(email)
    \/ handleLogout
    \/ \E status \in StatusCodes : api_get(status)

SpecAuth == Init /\ [][NextAuth]_vars

\* ----------------------------------------------------------- auth store
\* What the auth store's actions leave alone.
outside_authStore == <<units, memberships, invitations, now, reqs, permissions, visible,
                       tree, router, screens>>

\* The account a token was issued to: what GET /me answers for it.
me(t) == CHOOSE email \in Emails : t \in {devToken(email), access_token(email)}

\* All endpoints require a bearer credential: without one the answer is a failure.
answers(t) == IF t = NoToken THEN StatusCodes \ {200} ELSE StatusCodes

\* useAuthStore.logout: authService.logout is api.clearToken.
logout ==
    /\ clearToken
    /\ auth_user' = NoUser
    /\ isAuthenticated' = FALSE
    /\ UNCHANGED <<isLoading, auth_error, headers, response, outside_authStore>>

\* useAuthStore.initialize: with a token, loads the user; a failure clears
\* the token and the user; in every case isLoading ends false.
initialize(status) ==
    /\ status \in answers(getToken)
    /\ isLoading' = FALSE
    /\ auth_error' = NoError
    /\ IF getToken = NoToken
       THEN UNCHANGED <<token, auth_token, headers, response, auth_user, isAuthenticated>>
       ELSE /\ headers' = getToken
            /\ response' = IF status = 200 THEN returns ELSE throws(status)
            /\ IF status = 200
               THEN /\ token' = getToken
                    /\ UNCHANGED auth_token
                    /\ auth_user' = me(getToken)
                    /\ isAuthenticated' = TRUE
               ELSE /\ clearToken
                    /\ auth_user' = NoUser
                    /\ isAuthenticated' = FALSE
    /\ UNCHANGED outside_authStore

\* useAuthStore.login: authService.devLogin sets the developer token through
\* ApiClient.setToken and loads the user; a failure keeps the message and
\* rethrows; in every case isLoading ends false.
login(email, status) ==
    /\ isLoading' = FALSE
    /\ headers' = devToken(email)
    /\ response' = IF status = 200 THEN returns ELSE throws(status)
    /\ IF status = 401
       THEN clearToken
       ELSE /\ token' = devToken(email)
            /\ auth_token' = devToken(email)
    /\ IF status = 200
       THEN /\ auth_user' = me(devToken(email))
            /\ isAuthenticated' = TRUE
            /\ auth_error' = NoError
       ELSE /\ auth_error' = "Erro ao fazer login"
            /\ UNCHANGED <<auth_user, isAuthenticated>>
    /\ UNCHANGED outside_authStore

\* useAuthStore.refreshUser: loads the user again; a failure logs out.
refreshUser(status) ==
    /\ status \in answers(getToken)
    /\ headers' = getToken
    /\ response' = IF status = 200 THEN returns ELSE throws(status)
    /\ IF status = 200
       THEN /\ token' = getToken
            /\ UNCHANGED auth_token
            /\ auth_user' = me(getToken)
            /\ UNCHANGED isAuthenticated
       ELSE /\ clearToken
            /\ auth_user' = NoUser
            /\ isAuthenticated' = FALSE
    /\ UNCHANGED <<isLoading, auth_error, outside_authStore>>

NextAuthStore ==
    \/ \E status \in StatusCodes : initialize(status)
    \/ \E email \in Emails, status \in StatusCodes : login(email, status)
    \/ logout
    \/ \E status \in StatusCodes : refreshUser(status)

SpecAuthStore == Init /\ [][NextAuthStore]_vars

\* ------------------------------------------------- Community create form
\* How a request of a screen ends: with success, with an error that carries
\* no message, or with an error and the server's message.
Outcomes == {"ok", "", "Unauthorized"}

\* err.response?.data?.detail?.message || fallback
message(outcome, fallback) == IF outcome = "" THEN fallback ELSE outcome

\* Alert.alert('Erro', message)
Erro(outcome, fallback) == "Erro: " \o message(outcome, fallback)

\* What the Community screen's form handlers leave alone.
outside_communityScreen == <<units, memberships, invitations, now, reqs, response,
                             permissions, visible, token, auth_token, headers, router,
                             authStore, invitesScreen, membersScreen, verifyScreen,
                             avisoScreen>>

\* The names typed into the form: none, blanks only, a name.
Names == {"", " ", "Jovens"}

trim(name) == IF name = " " THEN "" ELSE name

Node(unit) == [id |-> unit.id, type |-> unit.type]

\* handleUnitPress: opens the details of a unit of the tree.
handleUnitPress(unit) ==
    /\ selectedUnit' = Node(unit)
    /\ showDetails' = TRUE
    /\ UNCHANGED <<tree, myMemberships, expandedIds, parentUnit, createForm, showCreate,
                   isCreating, posted, alert, loads, outside_communityScreen>>

\* renderDetailsModal: the button that opens the create form is shown to a
\* coordinator of the unit, unless the unit is a GRUPO.
canCreateChild == isCoordinator(myMemberships, selectedUnit.id) /\ selectedUnit.type # "GRUPO"

\* openCreateModal that keeps the fields of the form.
openCreateModal_keeps_form ==
    /\ showDetails
    /\ selectedUnit # NoNode
    /\ canCreateChild
    /\ parentUnit' = selectedUnit
    /\ showDetails' = FALSE
    /\ showCreate' = TRUE
    /\ UNCHANGED <<tree, myMemberships, expandedIds, selectedUnit, createForm, isCreating, posted,
                   alert, loads, outside_communityScreen>>

\* The 'Criar Entidade Filha' button and openCreateModal: the unit becomes
\* the parent and the form starts empty.
openCreateModal ==
    /\ showDetails
    /\ selectedUnit # NoNode
    /\ canCreateChild
    /\ parentUnit' = selectedUnit
    /\ createForm' = EmptyForm
    /\ showDetails' = FALSE
    /\ showCreate' = TRUE
    /\ UNCHANGED <<tree, myMemberships, expandedIds, selectedUnit, isCreating, posted,
                   alert, loads, outside_communityScreen>>

\* renderCreateModal: the value the picker holds for an option.
picker_value(opt) == opt.value \o "-" \o opt.groupType

\* The values of the picker for a parent: none selected, and the options of
\* the parent's type.
picker_values(parent) == {""} \cup {picker_value(opt) : opt \in CHILD_TYPE_OPTIONS(parent.type)}

onValueChange(v) ==
    /\ showCreate
    /\ v \in picker_values(parentUnit)
    /\ createForm' = [createForm EXCEPT !.selectedType = v]
    /\ UNCHANGED <<tree, myMemberships, expandedIds, selectedUnit, showDetails, parentUnit,
                   showCreate, isCreating, posted, alert, loads, outside_communityScreen>>

onChangeText(v) ==
    /\ showCreate
    /\ createForm' = [createForm EXCEPT !.name = v]
    /\ UNCHANGED <<tree, myMemberships, expandedIds, selectedUnit, showDetails, parentUnit,
                   showCreate, isCreating, posted, alert, loads, outside_communityScreen>>

onRequestClose ==
    /\ showCreate
    /\ showCreate' = FALSE
    /\ UNCHANGED <<tree, myMemberships, expandedIds, selectedUnit, showDetails, parentUnit,
                   createForm, isCreating, posted, alert, loads, outside_communityScreen>>

\* handleCreate: the option of the parent's type that the picker's value names.
selectedOption(parent, selectedType) ==
    {opt \in CHILD_TYPE_OPTIONS(parent.type) : picker_value(opt) = selectedType}

\* handleCreate up to the post, on the form's state: without a parent, a name
\* or a type it alerts; with a type that is no option of the parent's type it
\* alerts; else it sends the request.
handleCreate_press ==
    /\ showCreate
    /\ ~isCreating
    /\ IF parentUnit = NoNode \/ trim(createForm.name) = "" \/ createForm.selectedType = ""
       THEN /\ alert' = "Atencao"
            /\ UNCHANGED <<isCreating, posted>>
       ELSE IF selectedOption(parentUnit, createForm.selectedType) = {}
       THEN /\ alert' = "Erro"
            /\ UNCHANGED <<isCreating, posted>>
       ELSE /\ isCreating' = TRUE
            /\ \E opt \in selectedOption(parentUnit, createForm.selectedType) :
                  posted' = [parent |-> parentUnit.id, name |-> trim(createForm.name),
                             visibility |-> createForm.visibility,
                             group_type |-> opt.groupType]
            /\ UNCHANGED alert
    /\ UNCHANGED <<tree, myMemberships, expandedIds, selectedUnit, showDetails, parentUnit,
                   createForm, showCreate, loads, outside_communityScreen>>

\* handleCreate after the await: on success an alert, the form closes and
\* loadData() is called; on failure the error alert; isCreating ends false.
handleCreate_done(outcome) ==
    /\ isCreating
    /\ isCreating' = FALSE
    /\ alert' = IF outcome = "ok" THEN "Sucesso!" ELSE Erro(outcome, "Erro ao criar entidade")
    /\ showCreate' = IF outcome = "ok" THEN FALSE ELSE showCreate
    /\ loads' = IF outcome = "ok" THEN loads \cup {"community"} ELSE loads
    /\ UNCHANGED <<tree, myMemberships, expandedIds, selectedUnit, showDetails, parentUnit,
                   createForm, posted, outside_communityScreen>>

\* A tree with one unit of each type, in creation order.
CommunityUnits ==
    [id \in {UnitIds[n] : n \in 1..MaxUnits} |->
        CASE id = UnitIds[1] -> OrgUnit("CONSELHO_GERAL", NoUnit, "PUBLIC")
          [] id = UnitIds[2] -> OrgUnit("CONSELHO_EXECUTIVO", UnitIds[1], "PUBLIC")
          [] id = UnitIds[3] -> OrgUnit("SETOR", UnitIds[2], "PUBLIC")
          [] id = UnitIds[4] -> OrgUnit("MINISTERIO", UnitIds[3], "PUBLIC")
          [] OTHER -> OrgUnit("GRUPO", UnitIds[4], "PUBLIC")]

\* The tree exists; the user is a member of the executive council, the
\* coordinator of the group, and holds any role, or none, in the sector and
\* in the ministry.
InitCommunity ==
    /\ units = CommunityUnits
    /\ \E f \in [{UnitIds[3], UnitIds[4]} -> {"none"} \cup Roles] :
          memberships = SetToBag({Membership(CurrentUser, UnitIds[2], "MEMBER"),
                                  Membership(CurrentUser, UnitIds[5], "COORDINATOR")}
                                 \cup {Membership(CurrentUser, id, f[id]) :
                                         id \in {x \in DOMAIN f : f[x] # "none"}})
    /\ invitations = <<>>
    /\ now = 0
    /\ reqs = EmptyBag
    /\ response = NoResponse
    /\ permissions = NoPermissions
    /\ visible = FALSE
    /\ InitApp

NextCommunity ==
    \/ CommunityScreen_loadData(CurrentUser)
    \/ \E unit \in (IF tree = NoTree THEN {} ELSE tree_units(tree)) : handleUnitPress(unit)
    \/ openCreateModal
    \/ \E v \in {""} \cup {picker_value(opt) : opt \in SelectedTypes} : onValueChange(v)
    \/ \E v \in Names : onChangeText(v)
    \/ onRequestClose
    \/ handleCreate_press
    \/ \E outcome \in Outcomes : handleCreate_done(outcome)

SpecCommunity == InitCommunity /\ [][NextCommunity]_vars

\* --------------------------------------------------------- Invites screen
\* The most accept / reject requests the screen has in flight.
MaxPosts == 2

\* What the Invites screen's handlers leave alone.
outside_invitesScreen == <<units, memberships, invitations, now, reqs, response, permissions,
                           visible, tree, token, auth_token, headers, router, authStore,
                           communityScreen, membersScreen, verifyScreen, avisoScreen>>

Post(op, id) == [op |-> op, id |-> id]

\* loadInvites: the list becomes what the server answers.
loadInvites ==
    /\ invites' = my_invites
    /\ loads' = loads \ {"invites"}
    /\ UNCHANGED <<processingId, posts, my_invites, alert, outside_invitesScreen>>

\* renderInvite: the Accept and Reject buttons of an invitation are disabled
\* while it is the one being processed.
isProcessing(item) == processingId = item

\* The confirmation of handleAccept / handleReject up to the post: the
\* invitation becomes the one being processed and the request is sent.
onPress(op, item) ==
    /\ item \in invites
    /\ ~isProcessing(item)
    /\ BagCardinality(posts) < MaxPosts
    /\ processingId' = item
    /\ posts' = posts (+) SetToBag({Post(op, item)})
    /\ UNCHANGED <<invites, my_invites, alert, loads, outside_invitesScreen>>

\* The rest of the confirmation: on success an alert and loadInvites(); on
\* failure the error alert; in both cases nothing is being processed any
\* more.  The server accepts or rejects an invitation that is still open, once.
onPress_done(post, outcome) ==
    /\ BagIn(post, posts)
    /\ outcome = "ok" => post.id \in my_invites
    /\ posts' = posts (-) SetToBag({post})
    /\ processingId' = NoId
    /\ my_invites' = IF outcome = "ok" THEN my_invites \ {post.id} ELSE my_invites
    /\ alert' = IF outcome = "ok"
                THEN (IF post.op = "accept" THEN "Sucesso!" ELSE "Convite recusado")
                ELSE Erro(outcome, IF post.op = "accept" THEN "Erro ao aceitar convite"
                                   ELSE "Erro ao recusar convite")
    /\ loads' = IF outcome = "ok" THEN loads \cup {"invites"} ELSE loads
    /\ UNCHANGED <<invites, outside_invitesScreen>>

NextInvites ==
    \/ loadInvites
    \/ \E op \in {"accept", "reject"}, item \in InviteIds : onPress(op, item)
    \/ \E post \in BagToSet(posts), outcome \in Outcomes : onPress_done(post, outcome)

SpecInvites == Init /\ [][NextInvites]_vars

\* --------------------------------------------------------- Members screen
\* What the Members screen's handlers leave alone.
outside_membersScreen == <<units, memberships, invitations, now, reqs, response, permissions,
                           visible, tree, token, auth_token, headers, router, authStore,
                           invitesScreen, communityScreen, verifyScreen, avisoScreen>>

\* The users a member list can name, and the longest list.
MemberIds == {"a", "b", "c", "d"}
MaxMembers == 3

\* The answers of GET /org/units/{id}/members: lists of members, each user
\* at most once.
MemberLists ==
    {list \in UNION {[1..n -> [user_id : MemberIds, role : Roles]] : n \in 0..MaxMembers} :
        \A i, j \in DOMAIN list : list[i].user_id = list[j].user_id => i = j}

coordinators(list) == SelectSeq(list, LAMBDA m : m.role = "COORDINATOR")

regularMembers(list) == SelectSeq(list, LAMBDA m : m.role = "MEMBER")

\* FlatList data with the two groups the other way round.
FlatList_data_members_first(list) == regularMembers(list) \o coordinators(list)

\* FlatList data: [...coordinators, ...regularMembers]
FlatList_data(list) == coordinators(list) \o regularMembers(list)

\* loadData, the member list: the list becomes the server's answer and the
\* screen renders it.
setMembers(list) ==
    /\ members' = list
    /\ data' = FlatList_data(list)
    /\ loads' = loads \ {"members"}
    /\ UNCHANGED <<searchQuery, searchResults, timer, searches, isSearching, isSendingInvite,
                   sent, alert, outside_membersScreen>>

NextMemberList == \E list \in MemberLists : setMembers(list)

SpecMemberList == Init /\ [][NextMemberList]_vars

\* The texts typed into the user search.
Queries == {"", "a", "an", "ana", "bo"}

length(q) == Len(q)

\* The answer of GET /org/units/{id}/search-users?q=...: the users whose name
\* contains the text.
search_users(q) ==
    CASE q = "an" -> {"ana", "anita"}
      [] q = "ana" -> {"ana"}
      [] q = "bo" -> {"bob"}
      [] OTHER -> {}

\* The most search requests in flight at once.
MaxSearches == 2

\* The search text changes: the effect's cleanup clears the pending timer and
\* the effect starts a new one for the new text.
setSearchQuery(q) ==
    /\ q # searchQuery
    /\ searchQuery' = q
    /\ timer' = q
    /\ UNCHANGED <<members, data, searchResults, searches, isSearching, isSendingInvite, sent,
                   alert, loads, outside_membersScreen>>

\* searchUsers up to the await, when the timer fires: a text shorter than 2
\* characters empties the results; else the request is sent.
searchUsers ==
    /\ timer # NoTimer
    /\ timer' = NoTimer
    /\ IF length(timer) < 2
       THEN /\ searchResults' = {}
            /\ UNCHANGED <<searches, isSearching>>
       ELSE /\ Cardinality(searches \cup {timer}) <= MaxSearches
            /\ searches' = searches \cup {timer}
            /\ isSearching' = TRUE
            /\ UNCHANGED searchResults
    /\ UNCHANGED <<members, data, searchQuery, isSendingInvite, sent, alert, loads,
                   outside_membersScreen>>

\* searchUsers after the await: the results become the answer; a failure is
\* logged; isSearching ends false.
searchUsers_done(q, ok) ==
    /\ q \in searches
    /\ searches' = searches \ {q}
    /\ searchResults' = IF ok THEN search_users(q) ELSE searchResults
    /\ isSearching' = FALSE
    /\ UNCHANGED <<members, data, searchQuery, timer, isSendingInvite, sent, alert, loads,
                   outside_membersScreen>>

NextSearch ==
    \/ \E q \in Queries : setSearchQuery(q)
    \/ searchUsers
    \/ \E q \in searches, ok \in BOOLEAN : searchUsers_done(q, ok)

SpecSearch == Init /\ [][NextSearch]_vars

\* ------------------------------------------- Members screen: its requests
\* The confirmation of handleSendInvite up to the post, from a row of the
\* search results, which is disabled while an invite is being sent.
handleSendInvite_onPress ==
    /\ searchResults # {}
    /\ ~isSendingInvite
    /\ BagCardinality(sent) < MaxPosts
    /\ isSendingInvite' = TRUE
    /\ sent' = sent (+) SetToBag({"invite"})
    /\ UNCHANGED <<members, data, searchQuery, searchResults, timer, searches, isSearching,
                   alert, loads, outside_membersScreen>>

\* The rest of that confirmation: on success an alert and an empty search; on
\* failure the error alert; isSendingInvite ends false.
handleSendInvite_done(outcome) ==
    /\ BagIn("invite", sent)
    /\ sent' = sent (-) SetToBag({"invite"})
    /\ isSendingInvite' = FALSE
    /\ IF outcome = "ok"
       THEN /\ alert' = "Sucesso!"
            /\ searchQuery' = ""
            /\ timer' = IF searchQuery = "" THEN timer ELSE ""
            /\ searchResults' = {}
       ELSE /\ alert' = Erro(outcome, "Erro ao enviar convite")
            /\ UNCHANGED <<searchQuery, timer, searchResults>>
    /\ UNCHANGED <<members, data, searches, isSearching, loads, outside_membersScreen>>

\* The confirmation of handlePromote / handleRemove up to the request, for a
\* member of the list.
handleMember_onPress(op) ==
    /\ members # <<>>
    /\ BagCardinality(sent) < MaxPosts
    /\ sent' = sent (+) SetToBag({op})
    /\ UNCHANGED <<members, data, searchQuery, searchResults, timer, searches, isSearching,
                   isSendingInvite, alert, loads, outside_membersScreen>>

\* handleMember_done whose catch loads the list again.
handleMember_done_reloads(op, outcome) ==
    /\ BagIn(op, sent)
    /\ sent' = sent (-) SetToBag({op})
    /\ alert' = IF outcome = "ok" THEN "Sucesso!"
                ELSE Erro(outcome, IF op = "setRole" THEN "Erro ao atualizar papel"
                                   ELSE "Erro ao remover membro")
    /\ loads' = loads \cup {"members"}
    /\ UNCHANGED <<members, data, searchQuery, searchResults, timer, searches, isSearching,
                   isSendingInvite, outside_membersScreen>>

\* The rest of that confirmation: on success an alert and loadData(); on
\* failure the error alert.
handleMember_done(op, outcome) ==
    /\ BagIn(op, sent)
    /\ sent' = sent (-) SetToBag({op})
    /\ alert' = IF outcome = "ok" THEN "Sucesso!"
                ELSE Erro(outcome, IF op = "setRole" THEN "Erro ao atualizar papel"
                                   ELSE "Erro ao remover membro")
    /\ loads' = IF outcome = "ok" THEN loads \cup {"members"} ELSE loads
    /\ UNCHANGED <<members, data, searchQuery, searchResults, timer, searches, isSearching,
                   isSendingInvite, outside_membersScreen>>

\* ------------------------------------------ the screens' mutating requests
\* The tree exists and the user coordinates the ministry.
InitMutations ==
    /\ units = CommunityUnits
    /\ memberships = SetToBag({Membership(CurrentUser, UnitIds[4], "COORDINATOR")})
    /\ invitations = <<>>
    /\ now = 0
    /\ reqs = EmptyBag
    /\ response = NoResponse
    /\ permissions = NoPermissions
    /\ visible = FALSE
    /\ InitApp

\* The requests of the three screens in flight.
in_flight == BagCardinality(posts) + BagCardinality(sent) + (IF isCreating THEN 1 ELSE 0)

\* One invitation handled, one group created under the ministry, one user
\* searched and a list of one member; at most MaxPosts requests in flight.
NextMutations ==
    \/ loadInvites
    \/ \E op \in {"accept", "reject"} : in_flight < MaxPosts /\ onPress(op, "i1")
    \/ \E post \in BagToSet(posts), outcome \in Outcomes : onPress_done(post, outcome)
    \/ CommunityScreen_loadData(CurrentUser)
    \/ /\ tree # NoTree
       /\ \E unit \in {u \in tree_units(tree) : u.id = UnitIds[4]} : handleUnitPress(unit)
    \/ openCreateModal
    \/ onValueChange("GRUPO-ACOLHIDA")
    \/ onChangeText("Jovens")
    \/ in_flight < MaxPosts /\ handleCreate_press
    \/ \E outcome \in Outcomes : handleCreate_done(outcome)
    \/ setMembers(<<Member("a", "MEMBER")>>)
    \/ setSearchQuery("an")
    \/ searchUsers
    \/ \E q \in searches : searchUsers_done(q, TRUE)
    \/ in_flight < MaxPosts /\ handleSendInvite_onPress
    \/ \E outcome \in Outcomes : handleSendInvite_done(outcome)
    \/ \E op \in {"setRole", "removeMember"} : in_flight < MaxPosts /\ handleMember_onPress(op)
    \/ \E op \in {"setRole", "removeMember"}, outcome \in Outcomes : handleMember_done(op, outcome)

SpecMutations == InitMutations /\ [][NextMutations]_vars

\* ---------------------------------------------------- Verify-phone screen
\* What the verify-phone screen's handlers leave alone.
outside_verifyScreen == <<units, memberships, invitations, now, reqs, response, permissions,
                          visible, tree, token, auth_token, headers, router, authStore,
                          invitesScreen, alert, loads, communityScreen, membersScreen,
                          avisoScreen>>

\* setCountdown(60)
CountdownStart == 60

\* The verification ids the server answers with.
VerificationIds == {"v1", "v2"}

\* sendVerificationCode without its first line.
sendVerificationCode_unguarded ==
    /\ starts < MaxPosts
    /\ isSending' = TRUE
    /\ send_error' = ""
    /\ starts' = starts + 1
    /\ UNCHANGED <<countdown, verificationId, outside_verifyScreen>>

\* sendVerificationCode up to the await, called by the mount effect and by
\* the resend control: it returns at once while a send is running or the
\* countdown is positive; else it sends POST /verify/phone/start.
sendVerificationCode ==
    IF isSending \/ countdown > 0
    THEN UNCHANGED vars
    ELSE /\ starts < MaxPosts
         /\ isSending' = TRUE
         /\ send_error' = ""
         /\ starts' = starts + 1
         /\ UNCHANGED <<countdown, verificationId, outside_verifyScreen>>

\* sendVerificationCode after the await: a success stores the verification
\* and sets the countdown; a failure shows the error; isSending ends false.
sendVerificationCode_done(outcome) ==
    /\ starts > 0
    /\ starts' = starts - 1
    /\ IF outcome = "ok"
       THEN /\ verificationId' \in VerificationIds
            /\ countdown' = CountdownStart
            /\ UNCHANGED send_error
       ELSE /\ send_error' = message(outcome, "Erro ao enviar codigo")
            /\ UNCHANGED <<verificationId, countdown>>
    /\ isSending' = FALSE
    /\ UNCHANGED outside_verifyScreen

\* The countdown effect's timer fires: setCountdown(countdown - 1).
countdown_tick ==
    /\ countdown > 0
    /\ countdown' = countdown - 1
    /\ UNCHANGED <<isSending, verificationId, send_error, starts, outside_verifyScreen>>

NextVerify ==
    \/ sendVerificationCode
    \/ \E outcome \in Outcomes : sendVerificationCode_done(outcome)
    \/ countdown_tick

SpecVerify == Init /\ [][NextVerify]_vars

\* While the screen is mounted a timer that was set fires.
SpecVerifyFair == SpecVerify /\ WF_vars(countdown_tick)

\* ---------------------------------------------------- Create-notice screen
\* What the create-notice screen's handlers leave alone.
outside_avisoScreen == <<units, memberships, invitations, now, reqs, response, permissions,
                         visible, tree, token, auth_token, headers, router, authStore,
                         invitesScreen, alert, loads, communityScreen, membersScreen,
                         verifyScreen>>

\* The codes of a filter, and the code each member of the audience has.
FilterCodes == {"x", "y"}

Audience == [r1 |-> "x", r2 |-> "x", r3 |-> "y"]

\* The most preview requests in flight at once.
MaxPreviews == 2

\* buildFilters: the selection, or null when nothing is selected.
buildFilters(codes) == codes

\* The answer of POST /inbox/send/preview: the number of members the filters
\* keep; no filter keeps every member.
recipient_count(filters) ==
    IF filters = {} THEN Cardinality(DOMAIN Audience)
    ELSE Cardinality({r \in DOMAIN Audience : Audience[r] \in filters})

\* updatePreview up to the await, run by the effect after a change while the
\* notice is segmented.
updatePreview(all, codes) ==
    IF all
    THEN UNCHANGED previews
    ELSE /\ Cardinality(previews \cup {buildFilters(codes)}) <= MaxPreviews
         /\ previews' = previews \cup {buildFilters(codes)}

\* The switch between every member and a segment.
setSendToAll(v) ==
    /\ v # sendToAll
    /\ sendToAll' = v
    /\ updatePreview(v, selected)
    /\ UNCHANGED <<selected, previewCount, outside_avisoScreen>>

\* toggleSelection, from the filter modal of the segmented mode: the code
\* enters or leaves the selection.
toggleSelection(item) ==
    /\ ~sendToAll
    /\ selected' = IF item \in selected THEN selected \ {item} ELSE selected \cup {item}
    /\ updatePreview(sendToAll, selected')
    /\ UNCHANGED <<sendToAll, previewCount, outside_avisoScreen>>

\* updatePreview after the await: the count becomes the answer; a failure is
\* logged.
updatePreview_done(filters, ok) ==
    /\ filters \in previews
    /\ previews' = previews \ {filters}
    /\ previewCount' = IF ok THEN recipient_count(filters) ELSE previewCount
    /\ UNCHANGED <<sendToAll, selected, outside_avisoScreen>>

NextAviso ==
    \/ \E v \in BOOLEAN : setSendToAll(v)
    \/ \E item \in FilterCodes : toggleSelection(item)
    \/ \E filters \in previews, ok \in BOOLEAN : updatePreview_done(filters, ok)

SpecAviso == Init /\ [][NextAviso]_vars

\* ------------------------------------------------------------ properties
\* A step in which a call completes and its outcome reaches the caller.
answered == response' # NoResponse

\* A step in which a call is refused at validation: no transaction was opened.
refused == answered /\ reqs' = reqs

\* A step in which the open transaction of req reaches its writes and ends.
Completes(req) == BagIn(req, reqs) /\ reqs' = reqs (-) SetToBag({req})

stores_unchanged == UNCHANGED <<units, memberships, invitations>>

\* Invitation id turns ACCEPTED in this step.
becomes_accepted(id) ==
    invitations[id].status # "ACCEPTED" /\ invitations'[id].status = "ACCEPTED"

\* C1: an invitation's status changes only PENDING -> ACCEPTED or PENDING ->
\* REJECTED and never again afterwards; an accept or reject of the invited user
\* on an invitation that is already ACCEPTED or REJECTED (and not past its
\* expires_at) is refused with InvalidState and writes nothing; the accept that
\* succeeds leaves exactly one Membership row for the (user, unit) pair and the
\* repeated accept leaves the rows as they are.
C1_StatusTerminal ==
    [][ /\ DOMAIN invitations \subseteq DOMAIN invitations'
        /\ \A id \in DOMAIN invitations :
            LET inv == invitations[id] IN
            /\ invitations'[id].status # inv.status
                  => /\ inv.status = "PENDING"
                     /\ invitations'[id].status \in {"ACCEPTED", "REJECTED"}
            /\ becomes_accepted(id)
                  => member_rows(memberships', inv.invited_user_id, inv.org_unit_id) = 1
            /\ ( /\ refused
                 /\ response'.op \in {"accept", "reject"}
                 /\ response'.inv = id
                 /\ inv.status # "PENDING" )
                  => /\ response'.result # "OK"
                     /\ stores_unchanged
                     /\ ( response'.caller = inv.invited_user_id /\ ~is_expired(inv, now) )
                           => response'.result = "InvalidState"
      ]_vars

\* invite, accept, accept: the second accept has been refused with InvalidState
\* and the pair has its one Membership row.
C1_Witness ==
    \E id \in DOMAIN invitations :
        /\ invitations[id].status = "ACCEPTED"
        /\ response = [op |-> "accept", caller |-> invitations[id].invited_user_id,
                       inv |-> id, result |-> "InvalidState"]
        /\ reqs = EmptyBag
        /\ member_rows(memberships, invitations[id].invited_user_id,
                       invitations[id].org_unit_id) = 1

\* C2: when two accept transactions of the invited user are open on the same
\* PENDING invitation, the first to reach its writes performs the PENDING ->
\* ACCEPTED transition and leaves exactly one Membership row for the pair; an
\* accept that finds the invitation no longer PENDING is answered InvalidState
\* or AlreadyMember and writes nothing.
C2_ConcurrentAcceptOnce ==
    [][ \A req \in BagToSet(reqs) :
          ( req.op = "accept" /\ Completes(req) ) =>
            LET inv == invitations[req.inv] IN
            /\ ( CopiesIn(req, reqs) = 2 /\ inv.status = "PENDING" )
                  => /\ response'.result = "OK"
                     /\ becomes_accepted(req.inv)
                     /\ member_rows(memberships', inv.invited_user_id, inv.org_unit_id) = 1
            /\ inv.status # "PENDING"
                  => /\ response'.result \in {"InvalidState", "AlreadyMember"}
                     /\ stores_unchanged
      ]_vars

\* C3: the step that turns an invitation ACCEPTED is the step that inserts one
\* ACTIVE Membership for (invited user, unit) with the invitation's role, and
\* no other step adds a Membership row or turns an invitation ACCEPTED; an
\* accept that is answered with an error writes nothing.
C3_AcceptAtomic ==
    [][ /\ \A id \in DOMAIN invitations :
              becomes_accepted(id) =>
                LET inv == invitations[id] IN
                /\ invitations[id].status = "PENDING"
                /\ memberships' = memberships (+) SetToBag({
                      [user_id |-> inv.invited_user_id, org_unit_id |-> inv.org_unit_id,
                       role |-> inv.role, status |-> "ACTIVE"]})
                /\ response' = [op |-> "accept", caller |-> inv.invited_user_id,
                                inv |-> id, result |-> "OK"]
        /\ \A user \in Users, unit \in DOMAIN units :
              member_rows(memberships', user, unit) > member_rows(memberships, user, unit)
                => \E id \in DOMAIN invitations :
                      /\ becomes_accepted(id)
                      /\ invitations[id].invited_user_id = user
                      /\ invitations[id].org_unit_id = unit
        /\ ( answered /\ response'.op = "accept" ) =>
              IF response'.result = "OK"
              THEN becomes_accepted(response'.inv)
              ELSE stores_unchanged
      ]_vars

\* An accept has just succeeded: the invitation is ACCEPTED and the invited
\* user holds the Membership with the invitation's role.
C3_Witness ==
    /\ response.op = "accept"
    /\ response.result = "OK"
    /\ LET inv == invitations[response.inv] IN
        /\ inv.status = "ACCEPTED"
        /\ inv.role = "COORDINATOR"
        /\ BagIn(Membership(inv.invited_user_id, inv.org_unit_id, inv.role), memberships)

\* C4: at most one Membership row per (user_id, org_unit_id) pair, in every
\* reachable state.
C4_UniqueMembership ==
    \A user \in Users, unit \in DOMAIN units : member_rows(memberships, user, unit) <= 1

\* The unique constraint has just refused a second row for a pair, and a user
\* holds different roles in two units, one of them obtained by accepting.
C4_Witness ==
    /\ response.op = "accept"
    /\ response.result = "AlreadyMember"
    /\ \E user \in Users, id \in DOMAIN invitations :
          /\ invitations[id].status = "ACCEPTED"
          /\ invitations[id].invited_user_id = user
          /\ BagIn(Membership(user, "s", "COORDINATOR"), memberships)
          /\ BagIn(Membership(user, "m", "MEMBER"), memberships)

\* C5: at most one PENDING invitation per (org_unit_id, invited_user_id) pair,
\* in every reachable state.
C5_OnePendingPerPair ==
    \A i, j \in DOMAIN invitations :
        ( /\ invitations[i].status = "PENDING"
          /\ invitations[j].status = "PENDING"
          /\ invitations[i].org_unit_id = invitations[j].org_unit_id
          /\ invitations[i].invited_user_id = invitations[j].invited_user_id )
            => i = j

\* C6: an accept or reject by a caller who is not the invitation's invited
\* user opens no transaction, is answered with an error and writes nothing;
\* the error is Forbidden when the invitation is PENDING and not past its
\* expires_at; every open accept or reject transaction belongs to the invited
\* user, whoever else the caller is (the coordinator who sent the invitation
\* included).
C6_OnlyInvitedUserDecides ==
    [][ /\ \A req \in BagToSet(reqs') :
              req.op \in {"accept", "reject"}
                => req.caller = invitations'[req.inv].invited_user_id
        /\ ( /\ answered
             /\ response'.op \in {"accept", "reject"}
             /\ response'.caller # invitations[response'.inv].invited_user_id )
              => /\ refused
                 /\ response'.result # "OK"
                 /\ stores_unchanged
                 /\ ( /\ invitations[response'.inv].status = "PENDING"
                      /\ ~is_expired(invitations[response'.inv], now) )
                       => response'.result = "Forbidden"
      ]_vars

\* The coordinator who sent an invitation has tried to reject it: Forbidden,
\* and the invitation is still PENDING.
C6_Witness ==
    /\ response.op = "reject"
    /\ response.result = "Forbidden"
    /\ response.caller = invitations[response.inv].invited_by_user_id
    /\ invitations[response.inv].status = "PENDING"
    /\ ~is_expired(invitations[response.inv], now)

C8_AcceptRejectRace ==
    [][ /\ \A req \in BagToSet(reqs) :
            ( req.op \in {"accept", "reject"} /\ Completes(req) ) =>
              LET inv == invitations[req.inv] IN
              /\ ( /\ inv.status = "PENDING"
                   /\ \E other \in BagToSet(reqs) :
                        /\ other.inv = req.inv
                        /\ other.op \in {"accept", "reject"} \ {req.op} )
                    => /\ response'.result = "OK"
                       /\ invitations'[req.inv].status =
                            ( IF req.op = "accept" THEN "ACCEPTED" ELSE "REJECTED" )
                       /\ req.op = "reject" => memberships' = memberships
                       /\ req.op = "accept" =>
                            member_rows(memberships', inv.invited_user_id,
                                        inv.org_unit_id) = 1
              /\ inv.status # "PENDING"
                    => /\ response'.result # "OK"
                       /\ stores_unchanged
                       /\ ( \/ req.op = "reject"
                            \/ ~is_active_member(memberships, inv.invited_user_id,
                                                  inv.org_unit_id) )
                             => response'.result = "InvalidState"
        /\ \A id \in DOMAIN invitations :
              invitations[id].status = "REJECTED" => ~becomes_accepted(id)
      ]_vars

\* C9: the permissions loaded for a user on a unit have can_invite and
\* can_manage_members true exactly when the user holds an ACTIVE COORDINATOR
\* Membership on that very unit, whatever the user holds on its parent, its
\* children or elsewhere, and the client's isCoordinator over the user's
\* memberships agrees; an invite by a caller who is not COORDINATOR of the
\* target unit opens no transaction, is answered with an error (Unauthorized
\* when nothing else is wrong with the call) and creates no invitation.
C9_CoordinatorOfThatUnit ==
    [][ /\ permissions'.org_unit_id # NoUnit =>
              LET p == permissions'
                  direct == \E r \in BagToSet(memberships') :
                                /\ r.user_id = p.user_id
                                /\ r.org_unit_id = p.org_unit_id
                                /\ r.role = "COORDINATOR"
                                /\ r.status = "ACTIVE"
              IN  /\ p.can_invite = direct
                  /\ p.can_manage_members = direct
                  /\ isCoordinator(my_memberships(memberships', p.user_id),
                                   p.org_unit_id) = direct
        /\ \A caller \in Users, unit \in DOMAIN units, user \in Users, role \in Roles :
              ( /\ response' # response
                /\ ~BagIn(Membership(caller, unit, "COORDINATOR"), memberships)
                /\ handleSendInvite(caller, unit, user, role) )
                => /\ refused
                   /\ response'.result # "OK"
                   /\ stores_unchanged
                   /\ ( /\ ~is_active_member(memberships, user, unit)
                        /\ ~has_pending(invitations, unit, user) )
                         => response'.result = "Unauthorized"
      ]_vars

\* The permissions of a user who coordinates the ministry and a group below
\* the sector, and is a plain member of the sector, have been loaded on the
\* sector without can_invite, and the user's invite into the sector has been
\* refused with Unauthorized.
C9_Witness ==
    /\ BagIn(Membership("u", "m", "COORDINATOR"), memberships)
    /\ BagIn(Membership("u", "g1", "COORDINATOR"), memberships)
    /\ BagIn(Membership("u", "e", "COORDINATOR"), memberships)
    /\ BagIn(Membership("u", "s", "MEMBER"), memberships)
    /\ permissions.user_id = "u"
    /\ permissions.org_unit_id = "s"
    /\ ~permissions.can_invite
    /\ ~permissions.can_manage_members
    /\ response.op = "invite"
    /\ response.caller = "u"
    /\ response.result = "Unauthorized"

\* C10: the content of a unit is served to a user exactly when the unit is
\* PUBLIC, or the user holds an ACTIVE Membership on it, or the unit is a
\* SECTOR and the user holds an ACTIVE Membership on a MINISTRY whose parent it
\* is; a user who sees a SECTOR through a MINISTRY only has neither can_invite
\* nor can_manage_members on the SECTOR.
C10_VisibilityRule ==
    permissions.org_unit_id # NoUnit =>
        LET user == permissions.user_id
            unit == permissions.org_unit_id
            holds(id) == isMember(my_memberships(memberships, user), id)
            through_ministry ==
                /\ units[unit].type = "SETOR"
                /\ \E id \in DOMAIN units :
                      /\ units[id].type = "MINISTERIO"
                      /\ units[id].parent_id = unit
                      /\ holds(id)
        IN  /\ visible = ( \/ units[unit].visibility = "PUBLIC"
                           \/ holds(unit)
                           \/ through_ministry )
            /\ ( through_ministry /\ ~holds(unit) )
                  => /\ visible
                     /\ ~permissions.can_invite
                     /\ ~permissions.can_manage_members

\* A coordinator of the ministry, and of nothing else, is served the content
\* of the RESTRICTED sector above it, without can_invite; holding the group
\* below the sector instead would not do.
C10_Witness ==
    /\ units["s"].visibility = "RESTRICTED"
    /\ BagToSet(memberships) = {Membership("u", "m", "COORDINATOR")}
    /\ permissions.user_id = "u"
    /\ permissions.org_unit_id = "s"
    /\ visible
    /\ ~permissions.can_invite

\* C14: a removeMember that succeeds was requested by a caller with
\* can_manage_members on the unit, deletes the Membership row of that (user,
\* unit) pair and nothing else; a removeMember for a pair that has no row
\* fails and writes nothing, with MemberNotFound when the caller may manage the
\* unit's members, at validation as well as at the transaction's writes.
C14_RemoveMember ==
    [][ /\ \A req \in BagToSet(reqs') :
              ( req.op = "removeMember" /\ ~BagIn(req, reqs) )
                => /\ can_manage_members(memberships, req.caller, req.unit)
                   /\ is_active_member(memberships, req.user, req.unit)
        /\ \A req \in BagToSet(reqs) :
              ( req.op = "removeMember" /\ Completes(req) ) =>
                IF is_active_member(memberships, req.user, req.unit)
                THEN /\ response'.result = "OK"
                     /\ member_rows(memberships', req.user, req.unit) = 0
                     /\ \A user \in Users, unit \in DOMAIN units, role \in Roles :
                          ( user # req.user \/ unit # req.unit )
                            => CopiesIn(Membership(user, unit, role), memberships')
                                 = CopiesIn(Membership(user, unit, role), memberships)
                     /\ UNCHANGED <<units, invitations>>
                ELSE /\ response'.result = "MemberNotFound"
                     /\ stores_unchanged
        /\ \A caller \in Users, unit \in DOMAIN units, user \in Users :
              ( /\ response' # response
                /\ response'.op = "removeMember"
                /\ reqs' = reqs
                /\ ~is_active_member(memberships, user, unit)
                /\ handleRemove(caller, unit, user) )
                => /\ refused
                   /\ response'.result # "OK"
                   /\ stores_unchanged
                   /\ can_manage_members(memberships, caller, unit)
                        => response'.result = "MemberNotFound"
      ]_vars

\* The coordinator removed a user who had joined by invitation, and the
\* coordinator's repeated removeMember has been refused with MemberNotFound;
\* the coordinator's own memberships are as they were.
C14_Witness ==
    /\ response = [op |-> "removeMember", caller |-> "c", inv |-> 0,
                   result |-> "MemberNotFound"]
    /\ \E id \in DOMAIN invitations :
          /\ invitations[id].status = "ACCEPTED"
          /\ invitations[id].invited_user_id = "u"
          /\ invitations[id].org_unit_id = "s"
    /\ memberships = SeedMemberships

removeMember_called(caller, unit, user) ==
    /\ \/ response' # response /\ response'.op = "removeMember"
       \/ BagCardinality(reqs') > BagCardinality(reqs)
    /\ handleRemove(caller, unit, user)

has_members(ms, unit) == \E user \in Users : is_active_member(ms, user, unit)

has_coordinator(ms, unit) == \E user \in Users : is_coordinator(ms, user, unit)

C20_NoMemberWithPending ==
    \A id \in DOMAIN invitations :
        invitations[id].status = "PENDING"
          => ~is_active_member(memberships, invitations[id].invited_user_id,
                               invitations[id].org_unit_id)

\* A step in which the client sends a request.
request_sent ==
    \/ \E status \in StatusCodes : api_get(status)
    \/ \E email \in Emails, status \in StatusCodes : handleLogin(email, status)

\* C18: every request carries exactly the token stored under 'auth_token' when
\* it is sent, so that after a logout no request carries the previous user's
\* token and after the next login requests carry the new user's token.
C18_RequestCarriesStoredToken == [][request_sent => headers' = auth_token]_vars

\* The step admits the call: its transaction is open and will insert the unit.
createChild_admitted(caller, parentId, type) ==
    /\ response' = response
    /\ reqs' = reqs (+) SetToBag({CreateRequest("createChild", caller, parentId, type)})

\* Every non-root unit's parent type permits the unit's type.
hierarchy_respected(us) ==
    \A id \in DOMAIN us :
        us[id].parent_id # NoUnit =>
            /\ us[id].parent_id \in DOMAIN us
            /\ us[id].type \in HierarchyTable(us[us[id].parent_id].type)

\* C11: a createChild call by a coordinator of an existing parent is admitted
\* iff the parent's type permits the requested child type, and is otherwise
\* answered InvalidHierarchy; an admitted call inserts a unit of that type under
\* that parent.  The create form's CHILD_TYPE_OPTIONS offers for each parent
\* type exactly the child types of the table, none for a GRUPO.  So every
\* non-root unit's parent type permits its type.
C11_HierarchyTable ==
    /\ [](/\ \A type \in UnitTypes :
                {option.value : option \in CHILD_TYPE_OPTIONS(type)} = HierarchyTable(type)
          /\ CHILD_TYPE_OPTIONS("GRUPO") = {}
          /\ hierarchy_respected(units))
    /\ [][(reqs' # reqs \/ response'.op = "createChild") =>
          \A caller \in Users, parentId \in DOMAIN units, type \in UnitTypes :
            /\ (is_coordinator(memberships, caller, parentId)
                    /\ (response' = response \/ response'.caller = caller)
                    /\ createChild(caller, parentId, type)) =>
                  IF type \in HierarchyTable(units[parentId].type)
                  THEN createChild_admitted(caller, parentId, type)
                  ELSE response' = Response(CreateRequest("createChild", caller, parentId, type),
                                            "InvalidHierarchy")
            /\ createChild_admitted(caller, parentId, type) =>
                  type \in HierarchyTable(units[parentId].type)
            /\ (BagIn(CreateRequest("createChild", caller, parentId, type), reqs)
                    /\ Commit(CreateRequest("createChild", caller, parentId, type))) =>
                  /\ response'.result = "OK"
                  /\ \E id \in DOMAIN units' \ DOMAIN units :
                        /\ DOMAIN units' = DOMAIN units \cup {id}
                        /\ units'[id].type = type
                        /\ units'[id].parent_id = parentId
                        /\ \A other \in DOMAIN units : units'[other] = units[other]]_vars

\* A group stands under a ministry, and a call asking for a type the parent
\* does not permit has just been answered InvalidHierarchy.
C11_Witness ==
    /\ \E id \in DOMAIN units :
          /\ units[id].type = "GRUPO"
          /\ units[id].parent_id # NoUnit
          /\ units[units[id].parent_id].type = "MINISTERIO"
    /\ response.op = "createChild"
    /\ response.result = "InvalidHierarchy"

\* C12: once the root has been created exactly one unit has no parent, it is a
\* CONSELHO_GERAL, and a further root creation, after the first or concurrent
\* with it, is answered RootAlreadyExists and leaves the tree unchanged.
C12_ExactlyOneRoot ==
    /\ [](/\ Cardinality(roots(units)) <= 1
          /\ \A id \in roots(units) : units[id].type = "CONSELHO_GERAL")
    /\ [][\A caller \in Devs :
            (roots(units) # {} /\ Completes(CreateRequest("createRoot", caller, NoUnit, "CONSELHO_GERAL"))) =>
                /\ response'.result = "RootAlreadyExists"
                /\ units' = units]_vars

\* How often an id occurs in a sequence of rows, and where.
occurrences(rows, id) == {i \in DOMAIN rows : rows[i] = id}

\* Following parent_id from the unit reaches a root within steps steps.
RECURSIVE reaches_root(_, _, _)
reaches_root(us, id, steps) ==
    \/ us[id].parent_id = NoUnit
    \/ /\ steps > 0
       /\ us[id].parent_id \in DOMAIN us
       /\ reaches_root(us, us[id].parent_id, steps - 1)

\* The units getTree returns from a root, parents first.
returned(us, rootId) == renderUnit(getTree(us, rootId), DOMAIN us)

\* C13: getTree() returns every unit of the store exactly once, each after its
\* parent; following parent_id from any unit reaches the root without a
\* cycle; and renderUnit over a loaded tree, whatever units are expanded,
\* shows no unit twice.
C13_TreeProperty ==
    /\ \A rootId \in roots(units), id \in DOMAIN units :
          /\ Cardinality(occurrences(returned(units, rootId), id)) = 1
          /\ units[id].parent_id # NoUnit =>
                \E i \in occurrences(returned(units, rootId), units[id].parent_id) :
                    \A j \in occurrences(returned(units, rootId), id) : i < j
    /\ \A id \in DOMAIN units : reaches_root(units, id, MaxUnits)
    /\ tree # NoTree =>
          \A expanded \in SUBSET {unit.id : unit \in tree_units(tree)} :
              \A unit \in tree_units(tree) :
                  Cardinality(occurrences(renderUnit(tree, expanded), unit.id)) <= 1

\* Every PENDING invitation of the pair is past its expires_at, and there is one.
only_expired_pending(invs, org_unit_id, invited_user_id, t) ==
    /\ has_pending(invs, org_unit_id, invited_user_id)
    /\ \A i \in DOMAIN invs :
          (/\ invs[i].org_unit_id = org_unit_id
           /\ invs[i].invited_user_id = invited_user_id
           /\ invs[i].status = "PENDING") => is_expired(invs[i], t)

\* C21: once the invitation of a (unit, user) pair has expired without being
\* accepted or rejected, an invite of the same user to the same unit by a
\* coordinator of the unit passes validation: the expired invitation does not
\* make it fail with DuplicatePending.
C21_ReinviteAfterExpiry ==
    [][\A caller \in Users, unit \in DOMAIN units, user \in Users, role \in Roles :
          (/\ response' # response \/ reqs' # reqs
           /\ can_invite(memberships, caller, unit)
           /\ ~is_active_member(memberships, user, unit)
           /\ only_expired_pending(invitations, unit, user, now)
           /\ handleSendInvite(caller, unit, user, role)) =>
              /\ response' = response
              /\ reqs' = reqs (+) SetToBag({Request("invite", caller, 0, unit, user, role)})]_vars

\* A step in which a request is answered with the status.
request_answered(status) ==
    \/ api_get(status)
    \/ \E email \in Emails : handleLogin(email, status)

\* C22: a request answered 401 throws with the token cleared in memory and in
\* SecureStore, and while both stay empty a request carries no Authorization
\* header; a request answered with another failure status throws
\* { response: { status } } and clears nothing: the stored token is as it was
\* and the token in memory is the one the request was sent with.
C22_UnauthorizedClearsToken ==
    [][/\ \A status \in StatusCodes \ {200} :
              request_answered(status) =>
                  /\ response' = throws(status)
                  /\ IF status = 401
                     THEN token' = NoToken /\ auth_token' = NoToken
                     ELSE token' = headers' /\ auth_token' = auth_token
       /\ (request_sent /\ token = NoToken /\ auth_token = NoToken) => headers' = NoToken]_vars

\* A request that carried a token has been answered 401 and the token is gone.
C22_Witness ==
    /\ response = throws(401)
    /\ headers # NoToken
    /\ token = NoToken
    /\ auth_token = NoToken

\* C23: whenever an action of the auth store has completed, isAuthenticated is
\* true exactly when a user is loaded, and isLoading is false.
C23_AuthStoreConsistent ==
    /\ [](isAuthenticated <=> auth_user # NoUser)
    /\ [][isLoading' = FALSE]_vars

\* The requests in flight for an invitation.
posts_for(item) == CopiesIn(Post("accept", item), posts) + CopiesIn(Post("reject", item), posts)

\* C24: while an accept or reject request for an invitation is in flight its
\* buttons are disabled, so no invitation has two requests in flight.
C24_OneRequestPerInvite ==
    \A item \in InviteIds :
        /\ posts_for(item) <= 1
        /\ posts_for(item) > 0 => isProcessing(item)

\* C27: the Community screen sends POST /org/units/{parent}/children only
\* with a parent set, a trimmed name that is not empty and a type that is an
\* option of the parent's type; the create form opens only for a unit the
\* loaded memberships make the user COORDINATOR of and that is no GRUPO, and
\* opening it resets the type, so the parent never changes under a chosen type.
C27_CreateFormGuards ==
    [][/\ (isCreating' /\ ~isCreating) =>
             /\ parentUnit # NoNode
             /\ posted'.parent = parentUnit.id
             /\ posted'.name = trim(createForm.name)
             /\ posted'.name # ""
             /\ \E opt \in CHILD_TYPE_OPTIONS(parentUnit.type) :
                   /\ picker_value(opt) = createForm.selectedType
                   /\ posted'.group_type = opt.groupType
       /\ (showCreate' /\ ~showCreate) =>
             /\ isCoordinator(myMemberships, parentUnit'.id)
             /\ parentUnit'.type # "GRUPO"
             /\ createForm'.selectedType = ""
       /\ parentUnit' # parentUnit => createForm'.selectedType = ""]_vars

\* A request for a group under the ministry is in flight, after the form was
\* used for the sector.
C27_Witness ==
    /\ isCreating
    /\ posted.parent = UnitIds[4]
    /\ posted.group_type = "ACOLHIDA"
    /\ selectedUnit.id = UnitIds[3]

\* The positions of a user in a list of members.
positions(list, user_id) == {i \in DOMAIN list : list[i].user_id = user_id}

\* C28: the member list shows each member the server returned exactly once,
\* every COORDINATOR before every MEMBER, and within each of the two groups
\* in the server's order.
C28_CoordinatorsFirst ==
    /\ Len(data) = Len(members)
    /\ \A i \in DOMAIN members :
          \E j \in DOMAIN data : data[j] = members[i] /\ positions(data, members[i].user_id) = {j}
    /\ \A i, j \in DOMAIN data :
          (data[i].role = "COORDINATOR" /\ data[j].role = "MEMBER") => i < j
    /\ \A i, j \in DOMAIN members :
          (i < j /\ members[i].role = members[j].role) =>
              \A k \in positions(data, members[i].user_id), l \in positions(data, members[j].user_id) :
                  k < l

\* The server's list has a MEMBER before a COORDINATOR and two members of one
\* role, and the screen shows the three in another order.
C28_Witness ==
    /\ Len(members) = MaxMembers
    /\ members[1].role = "MEMBER"
    /\ members[2].role = "COORDINATOR"
    /\ members[3].role = "MEMBER"
    /\ data = <<members[2], members[1], members[3]>>

\* The results the screen is to show for a search text.
results_for(q) == IF length(q) < 2 THEN {} ELSE search_users(q)

\* C29: a step that changes the results shown and leaves no search pending or
\* in flight sets the results of the current search text, and none for a text
\* of fewer than 2 characters.
C29_ResultsOfLatestQuery ==
    [][(timer' = NoTimer /\ searches' = {} /\ searchResults' # searchResults) =>
           searchResults' = results_for(searchQuery')]_vars

\* The lists the screens hold.
lists == <<invites, members, data, tree, myMemberships>>

\* The texts the screens show for an error that carries no message.
Fallbacks == {"Erro ao aceitar convite", "Erro ao recusar convite", "Erro ao criar entidade",
              "Erro ao enviar convite", "Erro ao atualizar papel", "Erro ao remover membro"}

\* A failed request ends with its error shown, no load requested and the
\* lists as they were.
failure_handled(outcome) ==
    /\ alert' \in (IF outcome = "" THEN {"Erro: " \o text : text \in Fallbacks}
                   ELSE {"Erro: " \o outcome})
    /\ loads' = loads
    /\ lists' = lists

\* C25: when the request of an accept, a reject, a create, an invite, a
\* change of role or a removal fails, the screen shows the error, requests no
\* load, keeps its lists and has its busy flag idle again.
C25_FailureLeavesState ==
    [][in_flight' < in_flight =>
          \A outcome \in Outcomes \ {"ok"} :
              /\ \A post \in BagToSet(posts) :
                    onPress_done(post, outcome) =>
                        (failure_handled(outcome) /\ processingId' = NoId)
              /\ handleCreate_done(outcome) => (failure_handled(outcome) /\ ~isCreating')
              /\ handleSendInvite_done(outcome) =>
                    (failure_handled(outcome) /\ ~isSendingInvite')
              /\ \A op \in {"setRole", "removeMember"} :
                    handleMember_done(op, outcome) => failure_handled(outcome)]_vars

\* A removal failed without a message from the server: its error is shown,
\* nothing is in flight or being loaded, and the lists are there.
C25_Witness ==
    /\ alert = "Erro: Erro ao remover membro"
    /\ in_flight = 0
    /\ loads = {}
    /\ processingId = NoId
    /\ invites # {}
    /\ members # <<>>
    /\ tree # NoTree
    /\ myMemberships # {}

\* C26: a /verify/phone/start request is sent only while none is in flight and
\* the countdown is 0; the countdown stays within 0..60 and changes only to 60
\* from 0 by a successful send or down by 1 by a tick, so 60 ticks lie between
\* a successful send and the next send; a failed send leaves it alone; and a
\* positive countdown leads to 0.
C26_ResendCountdown ==
    /\ [](countdown \in 0..CountdownStart)
    /\ [][starts' > starts => (starts = 0 /\ ~isSending /\ countdown = 0)]_vars
    /\ [][countdown' # countdown =>
             \/ (countdown = 0 /\ countdown' = CountdownStart /\ starts' < starts
                   /\ verificationId' # NoId)
             \/ (countdown' = countdown - 1 /\ starts' = starts)]_vars
    /\ [][\A outcome \in Outcomes \ {"ok"} :
             sendVerificationCode_done(outcome) => countdown' = countdown]_vars
    /\ (countdown > 0) ~> (countdown = 0)

\* After a successful send the countdown has run down and a second send is in
\* flight.
C26_Witness ==
    /\ verificationId # NoId
    /\ countdown = 0
    /\ isSending
    /\ starts = 1

\* C30: in segmented mode a step that changes previewCount and leaves no
\* preview request in flight sets the recipient count of the filters
\* selected now.
C30_PreviewOfCurrentFilters ==
    [][(~sendToAll' /\ previews' = {} /\ previewCount' # previewCount) =>
           previewCount' = recipient_count(buildFilters(selected'))]_vars

====
